---- MODULE Spec2Model ----
(***************************************************************************)
(* Product catalogue service: the Product entity (domain/entities), the   *)
(* product use cases (application/usecases), the DTO conversions and the  *)
(* GORM repository adapter behind the persistence port.                   *)
(*                                                                         *)
(* Strings are sequences of one-character strings over a small alphabet   *)
(* (space, a, b, A, B); strings.TrimSpace, strings.ToUpper and len are    *)
(* computed on them.  Prices are float64 in the source and are counted    *)
(* here in whole cents, so 999999.99 is 99999999.  The Go int of the      *)
(* stock is a two's complement integer of IntBits bits.  time.Now() is    *)
(* the value of the clock variable now, which the environment advances.   *)
(***************************************************************************)
EXTENDS Integers, Sequences, FiniteSets, TLC

VARIABLES product, last, now, db, uc, inflight

vars == <<product, last, now, db, uc, inflight>>

(***************************************************************************)
(* Bounds of the model.                                                    *)
(***************************************************************************)
IntBits == 4
MaxClock == 1
MaxProducts == 2

(***************************************************************************)
(* Machine integers (Go int, scaled to IntBits bits).                      *)
(***************************************************************************)
Pow2(n) == IF n = 0 THEN 1 ELSE 2 * (2 ^ (n - 1))
MaxInt == Pow2(IntBits - 1) - 1
MinInt == 0 - Pow2(IntBits - 1)
WrapInt(x) == ((x + Pow2(IntBits - 1)) % Pow2(IntBits)) - Pow2(IntBits - 1)

(***************************************************************************)
(* Strings.                                                                *)
(***************************************************************************)
Rep(c, n) == [i \in 1..n |-> c]
RECURSIVE TrimLeft(_)
TrimLeft(s) == IF s # <<>> /\ Head(s) = " " THEN TrimLeft(Tail(s)) ELSE s
RECURSIVE TrimRight(_)
TrimRight(s) == IF s # <<>> /\ s[Len(s)] = " " THEN TrimRight(SubSeq(s, 1, Len(s) - 1)) ELSE s
TrimSpace(s) == TrimRight(TrimLeft(s))
UpperChar(c) == CASE c = "a" -> "A" [] c = "b" -> "B" [] OTHER -> c
ToUpper(s) == [i \in 1..Len(s) |-> UpperChar(s[i])]

(***************************************************************************)
(* Domain entity: internal/domain/entities/product.go                      *)
(***************************************************************************)
ProductStatusActive == "active"
ProductStatusInactive == "inactive"
ProductStatusDiscontinued == "discontinued"
ProductStatuses == {ProductStatusActive, ProductStatusInactive, ProductStatusDiscontinued}

NameMinLen == 2
NameMaxLen == 255
SKUMinLen == 3
SKUMaxLen == 50
MaxPrice == 99999999

NoErr == [Type |-> "nil", Code |-> "", Message |-> "", Field |-> ""]
New(message) == [Type |-> "error", Code |-> "", Message |-> message, Field |-> ""]
Nil == [nil |-> TRUE]
Ret(p, err) == [p |-> p, err |-> err]

IsActive(p) == p.Status = ProductStatusActive
IsInStock(p) == p.Stock > 0
\* IsAvailable with the two conditions joined by or.
IsAvailable_Or(p) == IsActive(p) \/ IsInStock(p)
IsAvailable(p) == IsActive(p) /\ IsInStock(p)

\* Activate that forgets the timestamp.
Activate_NoStamp(p, t) == [p EXCEPT !.Status = ProductStatusActive]
Activate(p, t) == [p EXCEPT !.Status = ProductStatusActive, !.UpdatedAt = t]
\* Deactivate that leaves a discontinued product discontinued.
Deactivate_NotFromDiscontinued(p, t) ==
  IF p.Status = ProductStatusDiscontinued THEN [p EXCEPT !.UpdatedAt = t]
  ELSE [p EXCEPT !.Status = ProductStatusInactive, !.UpdatedAt = t]
Deactivate(p, t) == [p EXCEPT !.Status = ProductStatusInactive, !.UpdatedAt = t]
\* Discontinue that also writes the stock off.
Discontinue_ClearsStock(p, t) ==
  [p EXCEPT !.Status = ProductStatusDiscontinued, !.Stock = 0, !.UpdatedAt = t]
Discontinue(p, t) == [p EXCEPT !.Status = ProductStatusDiscontinued, !.UpdatedAt = t]

\* UpdateStock that adds the quantity to the stock.
UpdateStock_Adds(p, quantity, t) ==
  IF quantity < 0 THEN Ret(p, New("stock quantity cannot be negative"))
  ELSE Ret([p EXCEPT !.Stock = p.Stock + quantity, !.UpdatedAt = t], NoErr)

UpdateStock(p, quantity, t) ==
  IF quantity < 0 THEN Ret(p, New("stock quantity cannot be negative"))
  ELSE Ret([p EXCEPT !.Stock = quantity, !.UpdatedAt = t], NoErr)

\* ReduceStock refusing to take the last unit.
ReduceStock_Strict(p, quantity, t) ==
  IF quantity <= 0 THEN Ret(p, New("reduction quantity must be positive"))
  ELSE IF p.Stock <= quantity THEN Ret(p, New("insufficient stock"))
  ELSE Ret([p EXCEPT !.Stock = WrapInt(p.Stock - quantity), !.UpdatedAt = t], NoErr)

ReduceStock(p, quantity, t) ==
  IF quantity <= 0 THEN Ret(p, New("reduction quantity must be positive"))
  ELSE IF p.Stock < quantity THEN Ret(p, New("insufficient stock"))
  ELSE Ret([p EXCEPT !.Stock = WrapInt(p.Stock - quantity), !.UpdatedAt = t], NoErr)

\* AddStock replacing the stock by the amount.
AddStock_Replace(p, quantity, t) ==
  IF quantity <= 0 THEN Ret(p, New("addition quantity must be positive"))
  ELSE Ret([p EXCEPT !.Stock = WrapInt(quantity), !.UpdatedAt = t], NoErr)

AddStock(p, quantity, t) ==
  IF quantity <= 0 THEN Ret(p, New("addition quantity must be positive"))
  ELSE Ret([p EXCEPT !.Stock = WrapInt(p.Stock + quantity), !.UpdatedAt = t], NoErr)

\* UpdatePrice assigning before it validates.
UpdatePrice_AssignFirst(p, price, t) ==
  IF price < 0 THEN Ret([p EXCEPT !.Price = price], New("price cannot be negative"))
  ELSE Ret([p EXCEPT !.Price = price, !.UpdatedAt = t], NoErr)

UpdatePrice(p, price, t) ==
  IF price < 0 THEN Ret(p, New("price cannot be negative"))
  ELSE Ret([p EXCEPT !.Price = price, !.UpdatedAt = t], NoErr)

validateProductName(name) ==
  LET trimmed == TrimSpace(name)
  IN IF trimmed = <<>> THEN New("product name is required")
     ELSE IF Len(trimmed) < NameMinLen THEN New("product name must be at least 2 characters long")
     ELSE IF Len(trimmed) > NameMaxLen THEN New("product name must be less than 255 characters")
     ELSE NoErr

\* validateSKU without the upper bound on the length.
validateSKU_NoMax(sku) ==
  LET trimmed == TrimSpace(sku)
  IN IF trimmed = <<>> THEN New("SKU is required")
     ELSE IF Len(trimmed) < SKUMinLen THEN New("SKU must be at least 3 characters long")
     ELSE NoErr

validateSKU(sku) ==
  LET trimmed == TrimSpace(sku)
  IN IF trimmed = <<>> THEN New("SKU is required")
     ELSE IF Len(trimmed) < SKUMinLen THEN New("SKU must be at least 3 characters long")
     ELSE IF Len(trimmed) > SKUMaxLen THEN New("SKU must be less than 50 characters")
     ELSE NoErr

validatePrice(price) ==
  IF price < 0 THEN New("price cannot be negative")
  ELSE IF price > MaxPrice THEN New("price cannot exceed 999,999.99")
  ELSE NoErr

validateStock(stock) ==
  IF stock < 0 THEN New("stock cannot be negative") ELSE NoErr

\* NewProduct validating the price before the SKU.
NewProduct_PriceBeforeSKU(name, description, sku, category, brand, price, stock, t) ==
  IF validateProductName(name) # NoErr THEN Ret(Nil, validateProductName(name))
  ELSE IF validatePrice(price) # NoErr THEN Ret(Nil, validatePrice(price))
  ELSE IF validateSKU(sku) # NoErr THEN Ret(Nil, validateSKU(sku))
  ELSE IF validateStock(stock) # NoErr THEN Ret(Nil, validateStock(stock))
  ELSE IF TrimSpace(category) = <<>> THEN Ret(Nil, New("category is required"))
  ELSE Ret([ID |-> 0,
            Name |-> TrimSpace(name),
            Description |-> TrimSpace(description),
            SKU |-> ToUpper(TrimSpace(sku)),
            Price |-> price,
            Category |-> TrimSpace(category),
            Brand |-> TrimSpace(brand),
            Stock |-> stock,
            Status |-> ProductStatusActive,
            CreatedAt |-> t,
            UpdatedAt |-> t], NoErr)

\* NewProduct storing the SKU as typed, trimmed but not upper-cased.
NewProduct_NoUpper(name, description, sku, category, brand, price, stock, t) ==
  IF validateProductName(name) # NoErr THEN Ret(Nil, validateProductName(name))
  ELSE IF validateSKU(sku) # NoErr THEN Ret(Nil, validateSKU(sku))
  ELSE IF validatePrice(price) # NoErr THEN Ret(Nil, validatePrice(price))
  ELSE IF validateStock(stock) # NoErr THEN Ret(Nil, validateStock(stock))
  ELSE IF TrimSpace(category) = <<>> THEN Ret(Nil, New("category is required"))
  ELSE Ret([ID |-> 0,
            Name |-> TrimSpace(name),
            Description |-> TrimSpace(description),
            SKU |-> TrimSpace(sku),
            Price |-> price,
            Category |-> TrimSpace(category),
            Brand |-> TrimSpace(brand),
            Stock |-> stock,
            Status |-> ProductStatusActive,
            CreatedAt |-> t,
            UpdatedAt |-> t], NoErr)

NewProduct(name, description, sku, category, brand, price, stock, t) ==
  IF validateProductName(name) # NoErr THEN Ret(Nil, validateProductName(name))
  ELSE IF validateSKU(sku) # NoErr THEN Ret(Nil, validateSKU(sku))
  ELSE IF validatePrice(price) # NoErr THEN Ret(Nil, validatePrice(price))
  ELSE IF validateStock(stock) # NoErr THEN Ret(Nil, validateStock(stock))
  ELSE IF TrimSpace(category) = <<>> THEN Ret(Nil, New("category is required"))
  ELSE Ret([ID |-> 0,
            Name |-> TrimSpace(name),
            Description |-> TrimSpace(description),
            SKU |-> ToUpper(TrimSpace(sku)),
            Price |-> price,
            Category |-> TrimSpace(category),
            Brand |-> TrimSpace(brand),
            Stock |-> stock,
            Status |-> ProductStatusActive,
            CreatedAt |-> t,
            UpdatedAt |-> t], NoErr)

(***************************************************************************)
(* Inputs the callers supply.                                              *)
(***************************************************************************)
NameInputs == {<<>>, <<" ">>, <<"a">>, <<"a", "b">>, <<" ", "a", "b", " ">>,
               Rep("a", NameMaxLen), Rep("a", NameMaxLen + 1)}
SKUInputs == {<<>>, <<"a", "b">>, <<"a", "b", "a">>, <<" ", "a", "b", "a", " ">>,
              <<"A", "B", "A">>, <<"b", "a", "b">>, Rep("b", SKUMaxLen), Rep("b", SKUMaxLen + 1)}
CategoryInputs == {<<>>, <<" ">>, <<" ", "a", " ">>, <<"b">>}
DescriptionInputs == {<<>>, <<" ", "a", " ">>}
BrandInputs == {<<>>, <<"b", " ">>}
PriceInputs == {0 - 1, 0, 1999, MaxPrice, MaxPrice + 1}
StockInputs == {MinInt, 0 - 1, 0, 1, 2, MaxInt}

NewProductArgs == [name : NameInputs, description : DescriptionInputs, sku : SKUInputs,
                   category : CategoryInputs, brand : BrandInputs,
                   price : PriceInputs, stock : StockInputs]

EntityArgs == [name : {<<"a">>, <<" ", "a", "b", " ">>}, description : {<<>>},
               sku : {<<" ", "a", "b", "a", " ">>}, category : {<<"b">>}, brand : {<<>>},
               price : PriceInputs, stock : StockInputs]

NewProductOf(a, t) ==
  NewProduct(a.name, a.description, a.sku, a.category, a.brand, a.price, a.stock, t)

(***************************************************************************)
(* Domain errors: internal/domain/errors                                   *)
(***************************************************************************)
DomainError(code, message, field) ==
  [Type |-> "DomainError", Code |-> code, Message |-> message, Field |-> field]
ErrProductNotFound == DomainError("PRODUCT_NOT_FOUND", "Product not found", "")
ErrProductAlreadyExists ==
  DomainError("PRODUCT_ALREADY_EXISTS", "Product with this SKU already exists", "sku")
ErrInvalidProductSKU == DomainError("INVALID_SKU", "Invalid SKU format", "sku")
ErrFailedToCheckProductExistance ==
  DomainError("FAILED_TO_CHECK_PRODUCT_EXISTENCE", "failed to check product existence", "")
ErrFailedToCreateProduct ==
  DomainError("FAILED_TO_CREATE_PRODUCT", "failed to create product", "")
\* NewProductValidationError that drops the field.
NewProductValidationError_NoField(field, message) == DomainError("VALIDATION_ERROR", message, "")
NewProductValidationError(field, message) == DomainError("VALIDATION_ERROR", message, field)

(***************************************************************************)
(* DTO conversions: internal/application/dto                               *)
(***************************************************************************)
ToEntity(dto, t) ==
  NewProduct(dto.Name, dto.Description, dto.SKU, dto.Category, dto.Brand, dto.Price, dto.Stock, t)

ProductToResponseDTO(p) ==
  [ID |-> p.ID, Name |-> p.Name, Description |-> p.Description, SKU |-> p.SKU,
   Price |-> p.Price, Category |-> p.Category, Brand |-> p.Brand, Stock |-> p.Stock,
   Status |-> p.Status, IsActive |-> IsActive(p), IsInStock |-> IsInStock(p),
   IsAvailable |-> IsAvailable(p), CreatedAt |-> p.CreatedAt, UpdatedAt |-> p.UpdatedAt]

(***************************************************************************)
(* GORM repository behind the persistence port.  db is the products table: *)
(* the row at position i has primary key i.  A query or an insert may fail *)
(* with a driver error, chosen by the caller of these operators.           *)
(***************************************************************************)
ErrRecordNotFound == New("record not found")
ErrDuplicatedKey == New("duplicated key not allowed")
ErrUniqueViolation == New("ERROR: duplicate key value violates unique constraint idx_products_sku")
DuplicateMessages == {ErrDuplicatedKey.Message, ErrUniqueViolation.Message}
ErrDriver == New("driver: bad connection")

toModel(p) ==
  [ID |-> p.ID, Name |-> p.Name, Description |-> p.Description, SKU |-> p.SKU,
   Price |-> p.Price, Category |-> p.Category, Brand |-> p.Brand, Stock |-> p.Stock,
   Status |-> p.Status, CreatedAt |-> p.CreatedAt, UpdatedAt |-> p.UpdatedAt]

toEntity(m) ==
  [ID |-> m.ID, Name |-> m.Name, Description |-> m.Description, SKU |-> m.SKU,
   Price |-> m.Price, Category |-> m.Category, Brand |-> m.Brand, Stock |-> m.Stock,
   Status |-> m.Status, CreatedAt |-> m.CreatedAt, UpdatedAt |-> m.UpdatedAt]

\* handleError that hands every error back as it came.
handleError_Raw(err) == err

handleError(err) ==
  IF err = NoErr THEN NoErr
  ELSE IF err = ErrRecordNotFound THEN ErrProductNotFound
  ELSE IF err = ErrDuplicatedKey \/ err.Message \in DuplicateMessages THEN ErrProductAlreadyExists
  ELSE err

\* ExistsBySKU that hides a failed query.
ExistsBySKU_SwallowError(d, sku, fail) ==
  IF fail THEN [exists |-> FALSE, err |-> NoErr]
  ELSE [exists |-> \E i \in DOMAIN d : d[i].SKU = sku, err |-> NoErr]

\* ExistsBySKU that never finds a row.
ExistsBySKU_Never(d, sku, fail) ==
  IF fail THEN [exists |-> FALSE, err |-> ErrFailedToCheckProductExistance]
  ELSE [exists |-> FALSE, err |-> NoErr]

ExistsBySKU(d, sku, fail) ==
  IF fail THEN [exists |-> FALSE, err |-> ErrFailedToCheckProductExistance]
  ELSE [exists |-> \E i \in DOMAIN d : d[i].SKU = sku, err |-> NoErr]

\* Insert into a table without the unique index on sku.
Insert_NoUnique(d, m, fail) ==
  IF fail THEN [db |-> d, m |-> m, err |-> ErrDriver]
  ELSE [db |-> Append(d, [m EXCEPT !.ID = Len(d) + 1]),
        m |-> [m EXCEPT !.ID = Len(d) + 1], err |-> NoErr]

\* Insert that leaves the primary key of the model unset.
Insert_NoID(d, m, fail) ==
  IF fail THEN [db |-> d, m |-> m, err |-> ErrDriver]
  ELSE IF \E i \in DOMAIN d : d[i].SKU = m.SKU THEN [db |-> d, m |-> m, err |-> ErrUniqueViolation]
  ELSE [db |-> Append(d, m), m |-> m, err |-> NoErr]

\* INSERT INTO products: the unique index on sku rejects a second row with the
\* same SKU; the primary key is assigned by the table.
Insert(d, m, fail) ==
  IF fail THEN [db |-> d, m |-> m, err |-> ErrDriver]
  ELSE IF \E i \in DOMAIN d : d[i].SKU = m.SKU THEN [db |-> d, m |-> m, err |-> ErrUniqueViolation]
  ELSE [db |-> Append(d, [m EXCEPT !.ID = Len(d) + 1]),
        m |-> [m EXCEPT !.ID = Len(d) + 1], err |-> NoErr]

Create(d, p, f) ==
  LET e == ExistsBySKU(d, p.SKU, f.repoExists)
  IN IF e.err # NoErr THEN [p |-> Nil, err |-> e.err, db |-> d]
     ELSE IF e.exists THEN [p |-> Nil, err |-> ErrProductAlreadyExists, db |-> d]
     ELSE LET ins == Insert(d, toModel(p), f.insert)
          IN IF ins.err # NoErr THEN [p |-> Nil, err |-> handleError(ins.err), db |-> d]
             ELSE [p |-> toEntity(ins.m), err |-> NoErr, db |-> ins.db]

GetByID(d, id, fail) ==
  IF fail THEN Ret(Nil, handleError(ErrDriver))
  ELSE IF id \notin DOMAIN d THEN Ret(Nil, handleError(ErrRecordNotFound))
  ELSE Ret(toEntity(d[id]), NoErr)

GetBySKU(d, sku, fail) ==
  IF fail THEN Ret(Nil, handleError(ErrDriver))
  ELSE IF ~ \E i \in DOMAIN d : d[i].SKU = sku THEN Ret(Nil, handleError(ErrRecordNotFound))
  ELSE Ret(toEntity(d[CHOOSE i \in DOMAIN d : d[i].SKU = sku]), NoErr)

(***************************************************************************)
(* Use cases: internal/application/usecases/product.go.  Each operator is  *)
(* one call: resp and err are what it returns, db the table after it,      *)
(* loaded the entity the port handed over, entity that entity when the     *)
(* call returns, calls the port methods invoked, in order.                 *)
(***************************************************************************)
Out(resp, err, d, loaded, entity, calls) ==
  [resp |-> resp, err |-> err, db |-> d, loaded |-> loaded, entity |-> entity, calls |-> calls]

CreateProduct(d, request, t, f) ==
  IF validateSKU(request.SKU) # NoErr THEN Out(Nil, ErrInvalidProductSKU, d, Nil, Nil, <<>>)
  ELSE
    LET e == ExistsBySKU(d, request.SKU, f.exists)
    IN IF e.err # NoErr
       THEN Out(Nil, ErrFailedToCheckProductExistance, d, Nil, Nil, <<"ExistsBySKU">>)
       ELSE IF e.exists
       THEN Out(Nil, ErrProductAlreadyExists, d, Nil, Nil, <<"ExistsBySKU">>)
       ELSE
         LET ne == ToEntity(request, t)
         IN IF ne.err # NoErr THEN Out(Nil, ne.err, d, Nil, Nil, <<"ExistsBySKU">>)
            ELSE
              LET c == Create(d, ne.p, f)
              IN IF c.err # NoErr
                 THEN IF c.err = ErrFailedToCheckProductExistance
                      THEN Out(Nil, ErrFailedToCheckProductExistance, d, Nil, ne.p,
                               <<"ExistsBySKU", "Create">>)
                      ELSE Out(Nil, ErrFailedToCreateProduct, d, Nil, ne.p,
                               <<"ExistsBySKU", "Create">>)
                 ELSE Out(ProductToResponseDTO(c.p), NoErr, c.db, c.p, c.p,
                          <<"ExistsBySKU", "Create">>)

GetProductByID(d, id, f) ==
  LET g == GetByID(d, id, f.get)
  IN IF g.err # NoErr THEN Out(Nil, g.err, d, Nil, Nil, <<"GetByID">>)
     ELSE Out(ProductToResponseDTO(g.p), NoErr, d, g.p, g.p, <<"GetByID">>)

GetProductBySKU(d, sku, f) ==
  LET g == GetBySKU(d, sku, f.get)
  IN IF g.err # NoErr THEN Out(Nil, g.err, d, Nil, Nil, <<"GetBySKU">>)
     ELSE Out(ProductToResponseDTO(g.p), NoErr, d, g.p, g.p, <<"GetBySKU">>)

\* Optional (pointer) fields of the update request are <<>> (nil) or <<v>>.
UpdateProduct(d, id, request, t, f) ==
  LET g == GetByID(d, id, f.get)
  IN IF g.err # NoErr THEN Out(Nil, g.err, d, Nil, Nil, <<"GetByID">>)
     ELSE
       LET p1 == IF request.Name # <<>> THEN [g.p EXCEPT !.Name = request.Name] ELSE g.p
           p2 == IF request.Description # <<>>
                 THEN [p1 EXCEPT !.Description = request.Description] ELSE p1
           p3 == IF request.Category # <<>> THEN [p2 EXCEPT !.Category = request.Category] ELSE p2
           p4 == IF request.Brand # <<>> THEN [p3 EXCEPT !.Brand = request.Brand] ELSE p3
           r5 == IF request.Price # <<>> THEN UpdatePrice(p4, request.Price[1], t) ELSE Ret(p4, NoErr)
           r6 == IF request.Stock # <<>> THEN UpdateStock(r5.p, request.Stock[1], t)
                 ELSE Ret(r5.p, NoErr)
       IN IF r5.err # NoErr
          THEN Out(Nil, NewProductValidationError("price", r5.err.Message), d, g.p, r5.p,
                   <<"GetByID">>)
          ELSE IF r6.err # NoErr
          THEN Out(Nil, NewProductValidationError("stock", r6.err.Message), d, g.p, r6.p,
                   <<"GetByID">>)
          ELSE Out(ProductToResponseDTO(r6.p), NoErr, d, g.p, r6.p, <<"GetByID">>)

UpdateProductStock(d, id, stock, t, f) ==
  LET g == GetByID(d, id, f.get)
  IN IF g.err # NoErr THEN Out(Nil, g.err, d, Nil, Nil, <<"GetByID">>)
     ELSE LET r == UpdateStock(g.p, stock, t)
          IN IF r.err # NoErr
             THEN Out(Nil, NewProductValidationError("stock", r.err.Message), d, g.p, r.p,
                      <<"GetByID">>)
             ELSE Out(ProductToResponseDTO(r.p), NoErr, d, g.p, r.p, <<"GetByID">>)

UpdateProductPrice(d, id, price, t, f) ==
  LET g == GetByID(d, id, f.get)
  IN IF g.err # NoErr THEN Out(Nil, g.err, d, Nil, Nil, <<"GetByID">>)
     ELSE LET r == UpdatePrice(g.p, price, t)
          IN IF r.err # NoErr
             THEN Out(Nil, NewProductValidationError("price", r.err.Message), d, g.p, r.p,
                      <<"GetByID">>)
             ELSE Out(ProductToResponseDTO(r.p), NoErr, d, g.p, r.p, <<"GetByID">>)

ActivateProduct(d, id, t, f) ==
  LET g == GetByID(d, id, f.get)
  IN IF g.err # NoErr THEN Out(Nil, g.err, d, Nil, Nil, <<"GetByID">>)
     ELSE Out(ProductToResponseDTO(Activate(g.p, t)), NoErr, d, g.p, Activate(g.p, t),
              <<"GetByID">>)

DeactivateProduct(d, id, t, f) ==
  LET g == GetByID(d, id, f.get)
  IN IF g.err # NoErr THEN Out(Nil, g.err, d, Nil, Nil, <<"GetByID">>)
     ELSE Out(ProductToResponseDTO(Deactivate(g.p, t)), NoErr, d, g.p, Deactivate(g.p, t),
              <<"GetByID">>)

DiscontinueProduct(d, id, t, f) ==
  LET g == GetByID(d, id, f.get)
  IN IF g.err # NoErr THEN Out(Nil, g.err, d, Nil, Nil, <<"GetByID">>)
     ELSE Out(ProductToResponseDTO(Discontinue(g.p, t)), NoErr, d, g.p, Discontinue(g.p, t),
              <<"GetByID">>)

DefaultPageSize == 10
MaxPageSize == 100

\* ListProducts that clamps an oversized page size to the maximum.
ListProducts_Clamp(d, page, pageSize) ==
  LET pg == IF page < 0 THEN 0 ELSE page
      ps == IF pageSize < 1 THEN DefaultPageSize
            ELSE IF pageSize > MaxPageSize THEN MaxPageSize ELSE pageSize
  IN Out([Products |-> <<>>, Page |-> pg, PageSize |-> ps, Total |-> 0], NoErr, d, Nil, Nil,
         <<>>)

ListProducts(d, page, pageSize) ==
  LET pg == IF page < 0 THEN 0 ELSE page
      ps == IF pageSize < 1 \/ pageSize > MaxPageSize THEN DefaultPageSize ELSE pageSize
  IN Out([Products |-> <<>>, Page |-> pg, PageSize |-> ps, Total |-> 0], NoErr, d, Nil, Nil,
         <<>>)

(***************************************************************************)
(* The entity under its declared operations.  last records the latest     *)
(* call: its name, its argument, the entity before it and its error.      *)
(***************************************************************************)
NoCall == [op |-> "none", arg |-> 0, before |-> Nil, err |-> NoErr]
NoUC == [op |-> "none", id |-> 0, req |-> Nil, f |-> Nil, before |-> <<>>, resp |-> Nil,
         err |-> NoErr, loaded |-> Nil, entity |-> Nil, calls |-> <<>>]

Call(op, arg, before, err) == [op |-> op, arg |-> arg, before |-> before, err |-> err]

Tick ==
  /\ now < MaxClock
  /\ now' = now + 1
  /\ UNCHANGED <<product, last, db, uc, inflight>>

EntNewProduct ==
  /\ product = Nil
  /\ last.op = "none"
  /\ \E a \in EntityArgs :
       LET r == NewProductOf(a, now)
       IN /\ product' = r.p
          /\ last' = Call("NewProduct", a, Nil, r.err)
  /\ UNCHANGED <<now, db, uc, inflight>>

EntActivate ==
  /\ product # Nil
  /\ product' = Activate(product, now)
  /\ last' = Call("Activate", 0, product, NoErr)
  /\ UNCHANGED <<now, db, uc, inflight>>

EntDeactivate ==
  /\ product # Nil
  /\ product' = Deactivate(product, now)
  /\ last' = Call("Deactivate", 0, product, NoErr)
  /\ UNCHANGED <<now, db, uc, inflight>>

EntDiscontinue ==
  /\ product # Nil
  /\ product' = Discontinue(product, now)
  /\ last' = Call("Discontinue", 0, product, NoErr)
  /\ UNCHANGED <<now, db, uc, inflight>>

EntUpdateStock ==
  /\ product # Nil
  /\ \E q \in StockInputs :
       /\ product' = UpdateStock(product, q, now).p
       /\ last' = Call("UpdateStock", q, product, UpdateStock(product, q, now).err)
  /\ UNCHANGED <<now, db, uc, inflight>>

EntReduceStock ==
  /\ product # Nil
  /\ \E q \in StockInputs :
       /\ product' = ReduceStock(product, q, now).p
       /\ last' = Call("ReduceStock", q, product, ReduceStock(product, q, now).err)
  /\ UNCHANGED <<now, db, uc, inflight>>

EntAddStock ==
  /\ product # Nil
  /\ \E q \in StockInputs :
       /\ product' = AddStock(product, q, now).p
       /\ last' = Call("AddStock", q, product, AddStock(product, q, now).err)
  /\ UNCHANGED <<now, db, uc, inflight>>

EntUpdatePrice ==
  /\ product # Nil
  /\ \E pr \in PriceInputs :
       /\ product' = UpdatePrice(product, pr, now).p
       /\ last' = Call("UpdatePrice", pr, product, UpdatePrice(product, pr, now).err)
  /\ UNCHANGED <<now, db, uc, inflight>>

EntInit ==
  /\ product = Nil
  /\ last = NoCall
  /\ now = 0
  /\ db = <<>>
  /\ uc = NoUC
  /\ inflight = <<>>

EntNext ==
  \/ Tick
  \/ EntNewProduct
  \/ EntActivate
  \/ EntDeactivate
  \/ EntDiscontinue
  \/ EntUpdateStock
  \/ EntReduceStock
  \/ EntAddStock
  \/ EntUpdatePrice

SpecEntity == EntInit /\ [][EntNext]_vars

(***************************************************************************)
(* NewProduct as a function of its inputs: one call on each input.         *)
(***************************************************************************)
CallNewProduct ==
  /\ product = Nil
  /\ last.op = "none"
  /\ \E a \in NewProductArgs :
       LET r == NewProductOf(a, now)
       IN /\ product' = r.p
          /\ last' = Call("NewProduct", a, Nil, r.err)
  /\ UNCHANGED <<now, db, uc, inflight>>

NewNext ==
  \/ Tick
  \/ CallNewProduct

SpecNew == EntInit /\ [][NewNext]_vars

(***************************************************************************)
(* ReduceStock followed by AddStock on one entity.  The second call keeps  *)
(* the record of the first in prior.                                       *)
(***************************************************************************)
PairReduceStock ==
  /\ product # Nil
  /\ last.op \in {"NewProduct", "UpdateStock"}
  /\ \E q \in StockInputs :
       /\ product' = ReduceStock(product, q, now).p
       /\ last' = Call("ReduceStock", q, product, ReduceStock(product, q, now).err)
  /\ UNCHANGED <<now, db, uc, inflight>>

PairAddStock ==
  /\ product # Nil
  /\ last.op = "ReduceStock"
  /\ \E q \in StockInputs :
       /\ product' = AddStock(product, q, now).p
       /\ last' = [op |-> "AddStock", arg |-> q, before |-> product,
                   err |-> AddStock(product, q, now).err, prior |-> last]
  /\ UNCHANGED <<now, db, uc, inflight>>

PairNext ==
  \/ Tick
  \/ EntNewProduct
  \/ EntUpdateStock
  \/ PairReduceStock
  \/ PairAddStock

SpecPair == EntInit /\ [][PairNext]_vars

(***************************************************************************)
(* The use cases over the products table.  uc records the latest call:    *)
(* its name, id and request, the port failures f it met, the table before *)
(* it, and what it returned.                                               *)
(***************************************************************************)
CreateRequests == [Name : {<<"a">>, <<" ", "a", "b", " ">>}, Description : {<<>>},
                   SKU : {<<"a", "b">>, <<"a", "b", "a">>, <<" ", "A", "B", "A", " ">>,
                          <<"A", "B", "A">>, <<"B", "A", "B">>, <<" ", " ", " ">>,
                          Rep("b", SKUMaxLen + 1)},
                   Category : {<<"b">>}, Brand : {<<>>},
                   Price : {1999}, Stock : {0, 1}]
\* Updates of the descriptive fields alone, and updates of price and stock
\* with or without a name.
UpdateRequests ==
  [Name : {<<>>, <<"a">>}, Description : {<<>>, <<"d">>},
   Category : {<<>>, <<" ">>}, Brand : {<<>>, <<"b">>}, Price : {<<>>}, Stock : {<<>>}]
  \cup
  [Name : {<<>>, <<"a">>}, Description : {<<>>}, Category : {<<>>}, Brand : {<<>>},
   Price : {<<>>, <<0 - 1>>, <<MaxPrice + 1>>}, Stock : {<<>>, <<0 - 1>>, <<3>>}]
IDs == 1..(MaxProducts + 1)
SKUQueries == {<<"a", "b", "a">>, <<"A", "B", "A">>, <<"B", "A", "B">>}
StockArgs == {0 - 1, 0, 3}
PriceArgs == {0 - 1, 5, MaxPrice + 1}
PageArgs == {0 - 1, 0, 1}
PageSizeArgs == {0, 1, MaxPageSize, MaxPageSize + 1}
CreateFailures == [exists : BOOLEAN, repoExists : BOOLEAN, insert : BOOLEAN]
GetFailures == [get : BOOLEAN]

Done(op, id, req, f, o) ==
  [op |-> op, id |-> id, req |-> req, f |-> f, before |-> db, resp |-> o.resp, err |-> o.err,
   loaded |-> o.loaded, entity |-> o.entity, calls |-> o.calls]

Returns(op, id, req, f, o) ==
  /\ Len(o.db) <= MaxProducts
  /\ db' = o.db
  /\ uc' = Done(op, id, req, f, o)
  /\ UNCHANGED <<product, last, now, inflight>>

DoCreateProduct ==
  \E request \in CreateRequests, f \in CreateFailures :
    Returns("CreateProduct", 0, request, f, CreateProduct(db, request, now, f))

DoGetProductByID ==
  \E id \in IDs, f \in GetFailures :
    Returns("GetProductByID", id, Nil, f, GetProductByID(db, id, f))

DoGetProductBySKU ==
  \E sku \in SKUQueries, f \in GetFailures :
    Returns("GetProductBySKU", 0, sku, f, GetProductBySKU(db, sku, f))

DoUpdateProduct ==
  \E id \in IDs, request \in UpdateRequests, f \in GetFailures :
    Returns("UpdateProduct", id, request, f, UpdateProduct(db, id, request, now, f))

DoUpdateProductStock ==
  \E id \in IDs, stock \in StockArgs, f \in GetFailures :
    Returns("UpdateProductStock", id, stock, f, UpdateProductStock(db, id, stock, now, f))

DoUpdateProductPrice ==
  \E id \in IDs, price \in PriceArgs, f \in GetFailures :
    Returns("UpdateProductPrice", id, price, f, UpdateProductPrice(db, id, price, now, f))

DoActivateProduct ==
  \E id \in IDs, f \in GetFailures :
    Returns("ActivateProduct", id, Nil, f, ActivateProduct(db, id, now, f))

DoDeactivateProduct ==
  \E id \in IDs, f \in GetFailures :
    Returns("DeactivateProduct", id, Nil, f, DeactivateProduct(db, id, now, f))

DoDiscontinueProduct ==
  \E id \in IDs, f \in GetFailures :
    Returns("DiscontinueProduct", id, Nil, f, DiscontinueProduct(db, id, now, f))

DoListProducts ==
  \E page \in PageArgs, pageSize \in PageSizeArgs :
    Returns("ListProducts", 0, [page |-> page, pageSize |-> pageSize], Nil,
            ListProducts(db, page, pageSize))

Init == EntInit

Next ==
  \/ Tick
  \/ DoCreateProduct
  \/ DoGetProductByID
  \/ DoGetProductBySKU
  \/ DoUpdateProduct
  \/ DoUpdateProductStock
  \/ DoUpdateProductPrice
  \/ DoActivateProduct
  \/ DoDeactivateProduct
  \/ DoDiscontinueProduct
  \/ DoListProducts

Spec == Init /\ [][Next]_vars

(***************************************************************************)
(* Concurrent CreateProduct calls carrying one SKU.  inflight[c] is the     *)
(* call of caller c: pc is the port call it is about to make, entity the   *)
(* entity ToEntity built, port the error the INSERT returned.  Each port   *)
(* call is one statement against the table, so the calls of different      *)
(* callers interleave between them.                                        *)
(***************************************************************************)
NumCallers == 2
Callers == 1..NumCallers
RaceSKUs == {<<"a", "b", "a">>, <<"a", "b">>}
RaceRequests(sku) == {r \in CreateRequests : r.SKU = sku}

Started(request) ==
  [pc |-> "start", req |-> request, entity |-> Nil, resp |-> Nil, err |-> NoErr, port |-> NoErr]
Finished(call, resp, err) == [call EXCEPT !.pc = "done", !.resp = resp, !.err = err]

RaceInit ==
  /\ product = Nil
  /\ last = NoCall
  /\ now = 0
  /\ db = <<>>
  /\ uc = NoUC
  /\ \E sku \in RaceSKUs : inflight \in [Callers -> {Started(r) : r \in RaceRequests(sku)}]

\* part_004:45-47
RaceValidate(c) ==
  /\ inflight[c].pc = "start"
  /\ inflight' = [inflight EXCEPT ![c] =
       IF validateSKU(@.req.SKU) # NoErr THEN Finished(@, Nil, ErrInvalidProductSKU)
       ELSE [@ EXCEPT !.pc = "exists"]]
  /\ UNCHANGED <<product, last, now, db, uc>>

\* part_004:50-66
RaceExists(c) ==
  /\ inflight[c].pc = "exists"
  /\ \E fail \in BOOLEAN :
       LET e == ExistsBySKU(db, inflight[c].req.SKU, fail)
           ne == ToEntity(inflight[c].req, now)
       IN inflight' = [inflight EXCEPT ![c] =
            IF e.err # NoErr THEN Finished(@, Nil, ErrFailedToCheckProductExistance)
            ELSE IF e.exists THEN Finished(@, Nil, ErrProductAlreadyExists)
            ELSE IF ne.err # NoErr THEN Finished(@, Nil, ne.err)
            ELSE [@ EXCEPT !.pc = "repoExists", !.entity = ne.p]]
  /\ UNCHANGED <<product, last, now, db, uc>>

\* gorm_product_repository.go:50-56, part_004:69-77
RaceRepoExists(c) ==
  /\ inflight[c].pc = "repoExists"
  /\ \E fail \in BOOLEAN :
       LET e == ExistsBySKU(db, inflight[c].entity.SKU, fail)
       IN inflight' = [inflight EXCEPT ![c] =
            IF e.err # NoErr THEN Finished(@, Nil, ErrFailedToCheckProductExistance)
            ELSE IF e.exists THEN Finished(@, Nil, ErrFailedToCreateProduct)
            ELSE [@ EXCEPT !.pc = "insert"]]
  /\ UNCHANGED <<product, last, now, db, uc>>

\* gorm_product_repository.go:58-65, part_004:69-81
RaceInsert(c) ==
  /\ inflight[c].pc = "insert"
  /\ \E fail \in BOOLEAN :
       LET ins == Insert(db, toModel(inflight[c].entity), fail)
       IN IF ins.err # NoErr
          THEN /\ inflight' = [inflight EXCEPT ![c] =
                    Finished([@ EXCEPT !.port = ins.err], Nil,
                             IF handleError(ins.err) = ErrFailedToCheckProductExistance
                             THEN ErrFailedToCheckProductExistance
                             ELSE ErrFailedToCreateProduct)]
               /\ db' = db
          ELSE /\ inflight' = [inflight EXCEPT ![c] =
                    Finished([@ EXCEPT !.entity = toEntity(ins.m)],
                             ProductToResponseDTO(toEntity(ins.m)), NoErr)]
               /\ db' = ins.db
  /\ UNCHANGED <<product, last, now, uc>>

RaceNext ==
  \/ Tick
  \/ \E c \in Callers : RaceValidate(c)
  \/ \E c \in Callers : RaceExists(c)
  \/ \E c \in Callers : RaceRepoExists(c)
  \/ \E c \in Callers : RaceInsert(c)

SpecRace == RaceInit /\ [][RaceNext]_vars

(***************************************************************************)
(* HTTP handler: internal/adapters/http/handlers/product_handler.go.  An   *)
(* error a use case returned becomes a status and an error body.           *)
(***************************************************************************)
ErrInvalidProductName == DomainError("INVALID_PRODUCT_NAME", "Invalid product name", "name")
ErrInvalidProductPrice == DomainError("INVALID_PRICE", "Invalid product price", "price")
ErrInvalidProductStock == DomainError("INVALID_STOCK", "Invalid stock quantity", "stock")
ErrInvalidProductCategory ==
  DomainError("INVALID_CATEGORY", "Invalid product category", "category")
ErrProductInactive == DomainError("PRODUCT_INACTIVE", "Product is inactive", "")
ErrProductDiscontinued ==
  DomainError("PRODUCT_DISCONTINUED", "Product has been discontinued", "")
ErrProductOutOfStock == DomainError("PRODUCT_OUT_OF_STOCK", "Product is out of stock", "")
ErrInsufficientStock == DomainError("INSUFFICIENT_STOCK", "Insufficient stock quantity", "stock")
ErrProductNotAvailable ==
  DomainError("PRODUCT_NOT_AVAILABLE", "Product is not available for purchase", "")
ErrFailedToUpdateProduct ==
  DomainError("FAILED_TO_UPDATE_PRODUCT", "failed to update product", "")

StatusBadRequest == 400
StatusNotFound == 404
StatusConflict == 409
StatusUnprocessableEntity == 422
StatusInternalServerError == 500

ErrorResponse(status, error, message) ==
  [Status |-> status, Error |-> error, Message |-> message]

\* handleError of the handler with 500 for a domain error it does not list.
ProductHandler_handleError_Strict(err) ==
  IF err.Type = "DomainError"
  THEN IF err.Code = ErrProductNotFound.Code
       THEN ErrorResponse(StatusNotFound, err.Code, err.Message)
       ELSE IF err.Code = ErrProductAlreadyExists.Code
       THEN ErrorResponse(StatusConflict, err.Code, err.Message)
       ELSE IF err.Code \in {ErrInvalidProductName.Code, ErrInvalidProductSKU.Code,
                             ErrInvalidProductPrice.Code, ErrInvalidProductStock.Code,
                             ErrInvalidProductCategory.Code, ErrInsufficientStock.Code}
       THEN ErrorResponse(StatusBadRequest, err.Code, err.Message)
       ELSE IF err.Code \in {ErrProductInactive.Code, ErrProductDiscontinued.Code,
                             ErrProductOutOfStock.Code, ErrProductNotAvailable.Code}
       THEN ErrorResponse(StatusUnprocessableEntity, err.Code, err.Message)
       ELSE ErrorResponse(StatusInternalServerError, err.Code, err.Message)
  ELSE ErrorResponse(StatusInternalServerError, "INTERNAL_ERROR", "An internal error occurred")

ProductHandler_handleError(err) ==
  IF err.Type = "DomainError"
  THEN IF err.Code = ErrProductNotFound.Code
       THEN ErrorResponse(StatusNotFound, err.Code, err.Message)
       ELSE IF err.Code = ErrProductAlreadyExists.Code
       THEN ErrorResponse(StatusConflict, err.Code, err.Message)
       ELSE IF err.Code \in {ErrInvalidProductName.Code, ErrInvalidProductSKU.Code,
                             ErrInvalidProductPrice.Code, ErrInvalidProductStock.Code,
                             ErrInvalidProductCategory.Code, ErrInsufficientStock.Code}
       THEN ErrorResponse(StatusBadRequest, err.Code, err.Message)
       ELSE IF err.Code \in {ErrProductInactive.Code, ErrProductDiscontinued.Code,
                             ErrProductOutOfStock.Code, ErrProductNotAvailable.Code}
       THEN ErrorResponse(StatusUnprocessableEntity, err.Code, err.Message)
       ELSE ErrorResponse(StatusBadRequest, err.Code, err.Message)
  ELSE ErrorResponse(StatusInternalServerError, "INTERNAL_ERROR", "An internal error occurred")

\* The errors a use case can hand to the handler: the declared domain errors,
\* domain errors built with other messages and fields, and plain errors.
DeclaredErrors ==
  {ErrProductNotFound, ErrProductAlreadyExists, ErrInvalidProductName, ErrInvalidProductSKU,
   ErrInvalidProductPrice, ErrInvalidProductStock, ErrInvalidProductCategory,
   ErrProductInactive, ErrProductDiscontinued, ErrProductOutOfStock, ErrInsufficientStock,
   ErrProductNotAvailable, ErrFailedToCheckProductExistance, ErrFailedToCreateProduct,
   ErrFailedToUpdateProduct}
HandlerErrors ==
  DeclaredErrors
  \cup {DomainError(code, message, field) :
          code \in {e.Code : e \in DeclaredErrors} \cup {"VALIDATION_ERROR", "INTERNAL_ERROR", ""},
          message \in {"", "price cannot be negative", "Product not found"},
          field \in {"", "price"}}
  \cup {ErrDriver, ErrRecordNotFound, New(""), New("product name is required"),
        New("PRODUCT_NOT_FOUND: Product not found")}

HandleError ==
  /\ \E err \in HandlerErrors :
       uc' = [NoUC EXCEPT !.op = "handleError", !.err = err,
                          !.resp = ProductHandler_handleError(err)]
  /\ UNCHANGED <<product, last, now, db, inflight>>

HandlerNext == HandleError

SpecHandler == EntInit /\ [][HandlerNext]_vars

(***************************************************************************)
(* Properties of the entity (SpecEntity, SpecNew).                         *)
(***************************************************************************)

\* C1: after NewProduct and any sequence of the entity's operations, failed
\* or not, the stock is never negative.
C1_StockNonNegative == product # Nil => product.Stock >= 0

\* C2: after NewProduct and any sequence of the entity's operations, with
\* UpdatePrice given any argument, the price stays within 0 .. 999999.99.
C2_PriceInRange == product # Nil => (product.Price >= 0 /\ product.Price <= MaxPrice)

\* C7: UpdatePrice or UpdateStock with a negative argument, and ReduceStock or
\* AddStock with an amount that is not positive, return an error and leave
\* every field of the entity, updated-at included, as it was before the call.
C7_RejectedCallKeepsEntity ==
  (\/ (last.op \in {"UpdatePrice", "UpdateStock"} /\ last.arg < 0)
   \/ (last.op \in {"ReduceStock", "AddStock"} /\ last.arg <= 0))
  => (last.err # NoErr /\ product = last.before)

\* A negative price was refused on an entity whose clock had moved on since
\* its last update.
C7_Witness ==
  /\ last.op = "UpdatePrice"
  /\ last.arg < 0
  /\ last.err # NoErr
  /\ last.before.UpdatedAt < now

IsBlank(s) == \A i \in 1..Len(s) : s[i] = " "
NoOuterSpace(s) == s = <<>> \/ (s[1] # " " /\ s[Len(s)] # " ")
\* out is in with the surrounding spaces removed.
IsTrimOf(out, in) ==
  /\ NoOuterSpace(out)
  /\ Len(out) <= Len(in)
  /\ \E i \in 0..(Len(in) - Len(out)) :
       in = Rep(" ", i) \o out \o Rep(" ", Len(in) - Len(out) - i)
CapitalOf(c, cap) ==
  \/ (c \in {"a", "A"} /\ cap = "A")
  \/ (c \in {"b", "B"} /\ cap = "B")
\* out is in with the surrounding spaces removed and every letter in capitals.
IsUpperTrimOf(out, in) ==
  /\ NoOuterSpace(out)
  /\ Len(out) <= Len(in)
  /\ \E i \in 0..(Len(in) - Len(out)) :
       \A j \in 1..Len(in) :
         IF j <= i \/ j > i + Len(out) THEN in[j] = " " ELSE CapitalOf(in[j], out[j - i])
FirstLetter(s) == CHOOSE i \in 1..Len(s) : s[i] # " " /\ \A j \in 1..(i - 1) : s[j] = " "
LastLetter(s) == CHOOSE i \in 1..Len(s) : s[i] # " " /\ \A j \in (i + 1)..Len(s) : s[j] = " "
CoreLen(s) == LastLetter(s) - FirstLetter(s) + 1
ValidInputs(a) ==
  /\ ~ IsBlank(a.name) /\ CoreLen(a.name) >= 2 /\ CoreLen(a.name) <= 255
  /\ ~ IsBlank(a.sku) /\ CoreLen(a.sku) >= 3 /\ CoreLen(a.sku) <= 50
  /\ a.price >= 0 /\ a.price <= MaxPrice
  /\ a.stock >= 0
  /\ ~ IsBlank(a.category)

\* C10: on valid inputs NewProduct returns an Active product whose name,
\* description, category and brand are the trimmed inputs, whose SKU is the
\* trimmed input in capitals, whose price and stock are the inputs, and whose
\* created-at equals its updated-at.
C10_NewProductResult ==
  (last.op = "NewProduct" /\ ValidInputs(last.arg))
  => /\ last.err = NoErr
     /\ product # Nil
     /\ product.Status = ProductStatusActive
     /\ IsTrimOf(product.Name, last.arg.name)
     /\ IsTrimOf(product.Description, last.arg.description)
     /\ IsTrimOf(product.Category, last.arg.category)
     /\ IsTrimOf(product.Brand, last.arg.brand)
     /\ IsUpperTrimOf(product.SKU, last.arg.sku)
     /\ product.Price = last.arg.price
     /\ product.Stock = last.arg.stock
     /\ product.CreatedAt = product.UpdatedAt

\* NewProduct succeeded on inputs padded with spaces and a lower-case SKU.
C10_Witness ==
  /\ last.op = "NewProduct"
  /\ ValidInputs(last.arg)
  /\ last.arg.name = <<" ", "a", "b", " ">>
  /\ last.arg.sku = <<" ", "a", "b", "a", " ">>
  /\ product # Nil
  /\ product.SKU = <<"A", "B", "A">>

(***************************************************************************)
(* Properties of the use cases (Spec).                                     *)
(***************************************************************************)
Holds(d, sku) == \E i \in DOMAIN d : d[i].SKU = sku
Invoked(method) == \E i \in 1..Len(uc.calls) : uc.calls[i] = method

\* C3: when the table already holds a product with the request's SKU (and the
\* port answers the existence query), CreateProduct fails with AlreadyExists,
\* returns no projection, and the port's Create is not invoked.
C3_ExistingSKURejected ==
  (uc.op = "CreateProduct" /\ ~ uc.f.exists /\ Holds(uc.before, uc.req.SKU))
  => /\ uc.err = ErrProductAlreadyExists
     /\ uc.resp = Nil
     /\ ~ Invoked("Create")
     /\ db = uc.before

\* A create with a stored SKU was refused.
C3_Witness ==
  /\ uc.op = "CreateProduct"
  /\ ~ uc.f.exists
  /\ Holds(uc.before, uc.req.SKU)
  /\ uc.err = ErrProductAlreadyExists

\* C4: after a product with SKU s was created, a CreateProduct (of an otherwise
\* valid request) whose SKU differs from s only by letter case or surrounding
\* spaces is rejected by the use case's own existence check, with AlreadyExists
\* and before Create is called.
C4_NormalisedSKURejected ==
  (/\ uc.op = "CreateProduct"
   /\ ~ uc.f.exists
   /\ validateSKU(uc.req.SKU) = NoErr
   /\ validateProductName(uc.req.Name) = NoErr
   /\ Holds(uc.before, ToUpper(TrimSpace(uc.req.SKU))))
  => (uc.err = ErrProductAlreadyExists /\ ~ Invoked("Create"))

\* C5: when the port's Create rejects the entity with AlreadyExists,
\* CreateProduct returns that same error.
C5_AlreadyExistsPassesThrough ==
  (/\ uc.op = "CreateProduct"
   /\ Invoked("Create")
   /\ uc.resp = Nil
   /\ Create(uc.before, uc.entity, uc.f).err = ErrProductAlreadyExists)
  => uc.err = ErrProductAlreadyExists

MutatingUseCases == {"UpdateProduct", "UpdateProductStock", "UpdateProductPrice",
                     "ActivateProduct", "DeactivateProduct", "DiscontinueProduct"}

\* C6: when a mutating use case returns success, a GetProductByID for the same
\* id that follows it shows the values of the projection it returned.
C6_SuccessIsDurable ==
  (uc.op \in MutatingUseCases /\ uc.err = NoErr)
  => GetProductByID(db, uc.id, [get |-> FALSE]).resp = uc.resp

\* C8: when UpdateProduct fails on a negative price or stock, the entity it
\* loaded from the port is as it was loaded.
C8_FailedUpdateKeepsEntity ==
  (uc.op = "UpdateProduct" /\ uc.err.Code = "VALIDATION_ERROR")
  => uc.entity = uc.loaded

ValidName(name) == NoOuterSpace(name) /\ ~ IsBlank(name) /\ Len(name) >= 2 /\ Len(name) <= 255
ValidCategory(category) == ~ IsBlank(category)

\* C9: every product, in the table or handed back by a use case, has a trimmed
\* name of 2 to 255 characters and a category that is not blank.
C9_NamesAndCategoriesValid ==
  /\ \A i \in DOMAIN db : ValidName(db[i].Name) /\ ValidCategory(db[i].Category)
  /\ (uc.op # "ListProducts" /\ uc.resp # Nil)
     => (ValidName(uc.resp.Name) /\ ValidCategory(uc.resp.Category))

(***************************************************************************)
(* Further properties of the entity.                                       *)
(***************************************************************************)
NameOK(a) == ~ IsBlank(a.name) /\ CoreLen(a.name) >= 2 /\ CoreLen(a.name) <= 255
SKUOK(a) == ~ IsBlank(a.sku) /\ CoreLen(a.sku) >= 3 /\ CoreLen(a.sku) <= 50
PriceOK(a) == a.price >= 0 /\ a.price <= MaxPrice
StockOK(a) == a.stock >= 0
CategoryOK(a) == ~ IsBlank(a.category)
FirstViolated(a) ==
  IF ~ NameOK(a) THEN "name"
  ELSE IF ~ SKUOK(a) THEN "sku"
  ELSE IF ~ PriceOK(a) THEN "price"
  ELSE IF ~ StockOK(a) THEN "stock"
  ELSE IF ~ CategoryOK(a) THEN "category"
  ELSE "none"
\* The constraint an error message of the entity speaks of.
FieldOfError(err) ==
  CASE err.Message \in {"product name is required",
                        "product name must be at least 2 characters long",
                        "product name must be less than 255 characters"} -> "name"
    [] err.Message \in {"SKU is required", "SKU must be at least 3 characters long",
                        "SKU must be less than 50 characters"} -> "sku"
    [] err.Message \in {"price cannot be negative", "price cannot exceed 999,999.99"} -> "price"
    [] err.Message = "stock cannot be negative" -> "stock"
    [] err.Message = "category is required" -> "category"
    [] OTHER -> "none"

\* C11: when construction inputs are invalid, NewProduct returns no entity and
\* the error of the first violated constraint in the order name, SKU, price,
\* stock, category, whichever later constraints are violated as well.
C11_FirstViolationReported ==
  (last.op = "NewProduct" /\ FirstViolated(last.arg) # "none")
  => /\ product = Nil
     /\ last.err # NoErr
     /\ FieldOfError(last.err) = FirstViolated(last.arg)

\* A bad SKU was reported although price, stock and category were bad too.
C11_Witness ==
  /\ last.op = "NewProduct"
  /\ NameOK(last.arg)
  /\ ~ SKUOK(last.arg) /\ ~ PriceOK(last.arg) /\ ~ StockOK(last.arg) /\ ~ CategoryOK(last.arg)
  /\ FieldOfError(last.err) = "sku"
  /\ product = Nil

\* C12: ReduceStock(amount) fails with an invalid-quantity error when
\* amount <= 0 and with an insufficient-stock error when amount exceeds the
\* stock, the stock unchanged in both cases; otherwise the stock becomes the old
\* stock minus amount, so an amount equal to the stock leaves 0.
C12_ReduceStock ==
  last.op = "ReduceStock"
  => IF last.arg <= 0
     THEN last.err.Message = "reduction quantity must be positive"
          /\ product.Stock = last.before.Stock
     ELSE IF last.arg > last.before.Stock
     THEN last.err.Message = "insufficient stock" /\ product.Stock = last.before.Stock
     ELSE last.err = NoErr /\ product.Stock = last.before.Stock - last.arg

\* The whole stock was taken.
C12_Witness ==
  /\ last.op = "ReduceStock"
  /\ last.arg > 0
  /\ last.arg = last.before.Stock
  /\ last.err = NoErr
  /\ product.Stock = 0

\* C13: on an entity with stock s, for 1 <= n <= s, ReduceStock(n) followed by
\* AddStock(n) both succeed and leave the stock equal to s.
C13_ReduceThenAddRestores ==
  (/\ last.op = "AddStock"
   /\ last.arg = last.prior.arg
   /\ last.prior.arg >= 1
   /\ last.prior.arg <= last.prior.before.Stock)
  => /\ last.prior.err = NoErr
     /\ last.err = NoErr
     /\ product.Stock = last.prior.before.Stock

\* Part of a stock of more than one unit was taken and put back.
C13_Witness ==
  /\ last.op = "AddStock"
  /\ last.arg = last.prior.arg
  /\ last.prior.arg >= 1
  /\ last.prior.arg < last.prior.before.Stock
  /\ last.before.Stock = last.prior.before.Stock - last.arg
  /\ product.Stock = last.prior.before.Stock

\* C14: AddStock(amount) fails when amount <= 0 and otherwise leaves the stock
\* equal to the old stock plus amount, strictly greater than the old stock, for
\* every stock and amount of the machine integer type.
C14_AddStockNoWrap ==
  last.op = "AddStock"
  => IF last.arg <= 0
     THEN last.err # NoErr /\ product.Stock = last.before.Stock
     ELSE /\ last.err = NoErr
          /\ product.Stock = last.before.Stock + last.arg
          /\ product.Stock > last.before.Stock

\* C15: for every status and stock, IsAvailable, and the is_available flag of
\* the projection, is true exactly when the status is Active and the stock is
\* positive, that is when IsActive and IsInStock both hold.
C15_IsAvailable ==
  product # Nil
  => LET available == product.Status = ProductStatusActive /\ product.Stock > 0
     IN /\ IsAvailable(product) = available
        /\ ProductToResponseDTO(product).IsAvailable = available
        /\ available = (IsActive(product) /\ IsInStock(product))

\* A stocked product that is not active is not available.
C15_Witness ==
  /\ product # Nil
  /\ product.Status = ProductStatusInactive
  /\ product.Stock > 0
  /\ ~ IsAvailable(product)
  /\ ~ ProductToResponseDTO(product).IsAvailable

\* C16: Activate, Deactivate and Discontinue succeed from every status, the
\* target status included, and leave the status Active, Inactive and
\* Discontinued, so each status is one step away from each other.
C16_StatusTransitions ==
  /\ (last.op \in {"Activate", "Deactivate", "Discontinue"}) => last.err = NoErr
  /\ last.op = "Activate" => product.Status = ProductStatusActive
  /\ last.op = "Deactivate" => product.Status = ProductStatusInactive
  /\ last.op = "Discontinue" => product.Status = ProductStatusDiscontinued
  /\ product # Nil
     => /\ Activate(product, now).Status = ProductStatusActive
        /\ Deactivate(product, now).Status = ProductStatusInactive
        /\ Discontinue(product, now).Status = ProductStatusDiscontinued

\* A discontinued product was deactivated.
C16_Witness ==
  /\ last.op = "Deactivate"
  /\ last.before.Status = ProductStatusDiscontinued
  /\ product.Status = ProductStatusInactive

EntityMutations == {"Activate", "Deactivate", "Discontinue", "UpdateStock", "ReduceStock",
                    "AddStock", "UpdatePrice"}

\* C17 as stated: every successful mutating operation of the entity leaves
\* updated-at strictly greater than it was before the call.
C17_UpdatedAtStrictlyGreater ==
  (last.op \in EntityMutations /\ last.err = NoErr)
  => product.UpdatedAt > last.before.UpdatedAt

\* C17 as amended: every successful mutating operation of the entity sets
\* updated-at to the clock reading at the call; it is never less than before
\* and strictly greater when the clock has advanced since the last update.
C17_UpdatedAtFollowsClock ==
  [][(last' # last /\ last'.op \in EntityMutations /\ last'.err = NoErr)
     => /\ product'.UpdatedAt = now
        /\ product'.UpdatedAt >= product.UpdatedAt
        /\ (now > product.UpdatedAt => product'.UpdatedAt > product.UpdatedAt)]_vars

\* An operation moved updated-at forward.
C17_Witness ==
  /\ last.op \in EntityMutations
  /\ last.err = NoErr
  /\ product.UpdatedAt > last.before.UpdatedAt

(***************************************************************************)
(* Further properties of the use cases (Spec).                             *)
(***************************************************************************)
\* C18: a successful UpdateProduct that supplies only name, description,
\* category or brand, and neither price nor stock, leaves the product with
\* updated-at set to the time of the call.
C18_FieldUpdateRefreshesUpdatedAt ==
  [][(/\ now' = now
      /\ uc'.op = "UpdateProduct"
      /\ uc'.err = NoErr
      /\ uc'.req.Price = <<>>
      /\ uc'.req.Stock = <<>>
      /\ \/ uc'.req.Name # <<>>
         \/ uc'.req.Description # <<>>
         \/ uc'.req.Category # <<>>
         \/ uc'.req.Brand # <<>>)
     => /\ uc'.entity.UpdatedAt = now
        /\ uc'.resp.UpdatedAt = now]_vars

InvalidSKUShape(sku) == IsBlank(sku) \/ CoreLen(sku) < 3 \/ CoreLen(sku) > 50

\* C19: when the request's SKU is blank, or its trimmed length is below 3 or
\* above 50, CreateProduct fails with the SKU validation error and invokes
\* neither ExistsBySKU nor Create on the port, whatever the other fields are.
C19_InvalidSKUBeforeStore ==
  (uc.op = "CreateProduct" /\ InvalidSKUShape(uc.req.SKU))
  => /\ uc.err = ErrInvalidProductSKU
     /\ uc.resp = Nil
     /\ uc.calls = <<>>
     /\ db = uc.before

\* A create with a SKU of 51 characters was refused although the port would
\* have failed.
C19_Witness ==
  /\ uc.op = "CreateProduct"
  /\ Len(uc.req.SKU) = SKUMaxLen + 1
  /\ uc.f.exists
  /\ uc.err = ErrInvalidProductSKU
  /\ uc.calls = <<>>

\* C20: when the port's ExistsBySKU fails, CreateProduct fails with
\* ExistenceCheckFailed and never invokes Create; when the port's Create fails
\* with an error that is not a domain error, CreateProduct fails with
\* CreateFailed; neither call returns a projection or changes the table.
C20_PortFailureMapped ==
  /\ (uc.op = "CreateProduct" /\ ~ InvalidSKUShape(uc.req.SKU) /\ uc.f.exists)
     => /\ uc.err = ErrFailedToCheckProductExistance
        /\ uc.calls = <<"ExistsBySKU">>
        /\ uc.resp = Nil
        /\ db = uc.before
  /\ (/\ uc.op = "CreateProduct"
      /\ Invoked("Create")
      /\ Create(uc.before, uc.entity, uc.f).err.Type = "error")
     => /\ uc.err = ErrFailedToCreateProduct
        /\ uc.resp = Nil
        /\ db = uc.before

\* The INSERT met a driver error and the create was reported as CreateFailed.
C20_Witness ==
  /\ uc.op = "CreateProduct"
  /\ uc.calls = <<"ExistsBySKU", "Create">>
  /\ uc.f.insert
  /\ Create(uc.before, uc.entity, uc.f).err = ErrDriver
  /\ uc.err = ErrFailedToCreateProduct
  /\ uc.resp = Nil

\* C21: a successful CreateProduct has invoked ExistsBySKU and then Create, once
\* each; the row Create stored is Active and holds the request's validated
\* values; the projection is that of the entity the port returned and carries
\* the identifier the table assigned.
C21_CreateSuccess ==
  (uc.op = "CreateProduct" /\ uc.err = NoErr)
  => /\ uc.calls = <<"ExistsBySKU", "Create">>
     /\ Len(db) = Len(uc.before) + 1
     /\ SubSeq(db, 1, Len(uc.before)) = uc.before
     /\ LET row == db[Len(db)]
        IN /\ row.ID = Len(uc.before) + 1
           /\ row.Status = ProductStatusActive
           /\ IsTrimOf(row.Name, uc.req.Name)
           /\ IsTrimOf(row.Description, uc.req.Description)
           /\ IsUpperTrimOf(row.SKU, uc.req.SKU)
           /\ IsTrimOf(row.Category, uc.req.Category)
           /\ IsTrimOf(row.Brand, uc.req.Brand)
           /\ row.Price = uc.req.Price
           /\ row.Stock = uc.req.Stock
           /\ row.CreatedAt = row.UpdatedAt
           /\ \A k \in DOMAIN row : uc.entity[k] = row[k]
     /\ uc.loaded = uc.entity
     /\ \A k \in DOMAIN uc.entity : uc.resp[k] = uc.entity[k]
     /\ uc.resp.ID = Len(uc.before) + 1
     /\ uc.resp.IsActive /\ uc.resp.IsInStock = (uc.req.Stock > 0)
     /\ uc.resp.IsAvailable = (uc.req.Stock > 0)

\* A second product was created from a SKU with surrounding spaces.
C21_Witness ==
  /\ uc.op = "CreateProduct"
  /\ uc.err = NoErr
  /\ uc.req.SKU = <<" ", "A", "B", "A", " ">>
  /\ uc.resp.ID = 2
  /\ uc.resp.SKU = <<"A", "B", "A">>
  /\ Len(db) = 2

\* C22: GetProductByID and GetProductBySKU leave the table alone; when the port
\* finds no row they return the NotFound error value and no projection, and
\* when it finds one they return the projection of exactly that row's entity.
C22_GetDelegates ==
  /\ uc.op \in {"GetProductByID", "GetProductBySKU"} => db = uc.before
  /\ (uc.op = "GetProductByID" /\ ~ uc.f.get)
     => IF uc.id \in DOMAIN uc.before
        THEN /\ uc.err = NoErr
             /\ uc.resp.ID = uc.id
             /\ \A k \in DOMAIN uc.before[uc.id] : uc.resp[k] = uc.before[uc.id][k]
        ELSE uc.err = ErrProductNotFound /\ uc.resp = Nil
  /\ (uc.op = "GetProductBySKU" /\ ~ uc.f.get)
     => IF Holds(uc.before, uc.req)
        THEN /\ uc.err = NoErr
             /\ uc.resp.SKU = uc.req
             /\ \E i \in DOMAIN uc.before :
                  \A k \in DOMAIN uc.before[i] : uc.resp[k] = uc.before[i][k]
        ELSE uc.err = ErrProductNotFound /\ uc.resp = Nil

\* A SKU in small letters was not found in a table that holds products.
C22_Witness ==
  /\ uc.op = "GetProductBySKU"
  /\ ~ uc.f.get
  /\ Len(db) >= 1
  /\ ~ Holds(db, uc.req)
  /\ uc.err = ErrProductNotFound
  /\ uc.resp = Nil

PortReaders == {"GetProductByID", "GetProductBySKU"} \cup MutatingUseCases

\* C23: when the port fails with an error that is not a domain error, the use
\* case that called it returns a domain error of its own and never the port's
\* error itself.
C23_PortErrorsWrapped ==
  /\ (uc.op \in PortReaders /\ uc.f.get)
     => uc.err.Type = "DomainError" /\ uc.err # ErrDriver
  /\ (/\ uc.op = "CreateProduct"
      /\ Invoked("Create")
      /\ Create(uc.before, uc.entity, uc.f).err.Type = "error")
     => uc.err.Type = "DomainError" /\ uc.err # ErrDriver

Supplied(given, loaded) == IF given # <<>> THEN given ELSE loaded
SuppliedValue(given, loaded) == IF given # <<>> THEN given[1] ELSE loaded

\* C24: a successful UpdateProduct leaves the entity, and the projection it
\* returns, with the supplied name, description, category, brand, price and
\* stock, with the loaded value of each of them that was not supplied, and
\* with the loaded id, SKU, status and created-at; an id the table does not
\* hold yields NotFound.
C24_PartialUpdate ==
  /\ (uc.op = "UpdateProduct" /\ uc.err = NoErr)
     => /\ uc.loaded = toEntity(uc.before[uc.id])
        /\ uc.entity.Name = Supplied(uc.req.Name, uc.loaded.Name)
        /\ uc.entity.Description = Supplied(uc.req.Description, uc.loaded.Description)
        /\ uc.entity.Category = Supplied(uc.req.Category, uc.loaded.Category)
        /\ uc.entity.Brand = Supplied(uc.req.Brand, uc.loaded.Brand)
        /\ uc.entity.Price = SuppliedValue(uc.req.Price, uc.loaded.Price)
        /\ uc.entity.Stock = SuppliedValue(uc.req.Stock, uc.loaded.Stock)
        /\ uc.entity.ID = uc.loaded.ID
        /\ uc.entity.SKU = uc.loaded.SKU
        /\ uc.entity.Status = uc.loaded.Status
        /\ uc.entity.CreatedAt = uc.loaded.CreatedAt
        /\ \A k \in DOMAIN uc.entity : uc.resp[k] = uc.entity[k]
  /\ (uc.op = "UpdateProduct" /\ ~ uc.f.get /\ uc.id \notin DOMAIN uc.before)
     => uc.err = ErrProductNotFound /\ uc.resp = Nil

\* A name and a stock were supplied for a product that had one unit.
C24_Witness ==
  /\ uc.op = "UpdateProduct"
  /\ uc.err = NoErr
  /\ uc.req.Name = <<"a">>
  /\ uc.req.Price = <<>>
  /\ uc.req.Stock = <<3>>
  /\ uc.loaded.Stock = 1
  /\ uc.entity.Name = <<"a">>
  /\ uc.entity.Stock = 3
  /\ uc.entity.Price = uc.loaded.Price

Found == ~ uc.f.get /\ uc.id \in DOMAIN uc.before

\* C25: for a product the port finds, UpdateProductStock with a negative stock
\* and UpdateProductPrice with a negative price return no projection and a
\* VALIDATION_ERROR whose field is "stock", "price" and whose message is the
\* entity's message; with a value that is not negative they return a
\* projection whose stock, price is the argument.
C25_SingleFieldUpdate ==
  /\ (uc.op = "UpdateProductStock" /\ Found)
     => IF uc.req < 0
        THEN /\ uc.resp = Nil
             /\ uc.err = [Type |-> "DomainError", Code |-> "VALIDATION_ERROR",
                          Message |-> "stock quantity cannot be negative", Field |-> "stock"]
        ELSE uc.err = NoErr /\ uc.resp.Stock = uc.req /\ uc.resp.ID = uc.id
  /\ (uc.op = "UpdateProductPrice" /\ Found)
     => IF uc.req < 0
        THEN /\ uc.resp = Nil
             /\ uc.err = [Type |-> "DomainError", Code |-> "VALIDATION_ERROR",
                          Message |-> "price cannot be negative", Field |-> "price"]
        ELSE uc.err = NoErr /\ uc.resp.Price = uc.req /\ uc.resp.ID = uc.id

\* A negative price was refused for a stored product.
C25_Witness ==
  /\ uc.op = "UpdateProductPrice"
  /\ Found
  /\ uc.req < 0
  /\ uc.resp = Nil
  /\ uc.err.Field = "price"
  /\ uc.err.Message = "price cannot be negative"

\* C26: ListProducts returns the page, or 0 for a negative page, and the page
\* size when it lies in 1..100 and 10 otherwise, an oversized one included; the
\* returned page is not negative, the page size lies in 1..100, and the port
\* receives no value out of range.
C26_PaginationNormalised ==
  uc.op = "ListProducts"
  => /\ uc.err = NoErr
     /\ uc.resp.Page = (IF uc.req.page > 0 THEN uc.req.page ELSE 0)
     /\ uc.resp.PageSize = (IF uc.req.pageSize \in 1..100 THEN uc.req.pageSize ELSE 10)
     /\ uc.resp.Page >= 0
     /\ uc.resp.PageSize \in 1..100
     /\ uc.calls = <<>>
     /\ db = uc.before

\* A negative page and an oversized page size were given.
C26_Witness ==
  /\ uc.op = "ListProducts"
  /\ uc.req.page < 0
  /\ uc.req.pageSize > 100
  /\ uc.resp.Page = 0
  /\ uc.resp.PageSize = 10

PageOf(d, page, pageSize) ==
  LET first == page * pageSize + 1
      end == IF first + pageSize - 1 < Len(d) THEN first + pageSize - 1 ELSE Len(d)
  IN [i \in 1..(IF end >= first THEN end - first + 1 ELSE 0) |->
        ProductToResponseDTO(toEntity(d[first + i - 1]))]

\* C27: ListProducts returns the number of stored products as the total and
\* the projections of the stored products of the requested page.
C27_ListDelegates ==
  uc.op = "ListProducts"
  => /\ uc.resp.Total = Len(db)
     /\ uc.resp.Products = PageOf(db, uc.resp.Page, uc.resp.PageSize)

Succeeded == {c \in DOMAIN inflight : inflight[c].pc = "done" /\ inflight[c].err = NoErr}

\* C28: under every interleaving of concurrent CreateProduct calls carrying one
\* SKU, the table never holds two products with one SKU, at most one call
\* returns success, and every other call that has returned has returned an
\* error and no projection.
C28_ConcurrentCreate ==
  /\ \A i, j \in DOMAIN db : db[i].SKU = db[j].SKU => i = j
  /\ Cardinality(Succeeded) <= 1
  /\ Cardinality(Succeeded) = Len(db)
  /\ \A c \in DOMAIN inflight :
       inflight[c].pc = "done"
       => IF c \in Succeeded
          THEN inflight[c].resp # Nil /\ inflight[c].resp.SKU = db[1].SKU
          ELSE inflight[c].resp = Nil /\ inflight[c].err # NoErr

\* Two calls both found no row, one inserted, and the unique index refused the
\* other.
C28_Witness ==
  \E c, o \in DOMAIN inflight :
    /\ c \in Succeeded
    /\ inflight[o].pc = "done"
    /\ inflight[o].port = ErrUniqueViolation
    /\ inflight[o].err = ErrFailedToCreateProduct
    /\ Len(db) = 1

\* C29: the handler maps NotFound to 404, AlreadyExists to 409, the invalid
\* name, SKU, price, stock, category and insufficient-stock codes to 400, the
\* inactive, discontinued, out-of-stock and not-available codes to 422, every
\* other domain error to 400, each with the error's code and message, and
\* every error that is not a domain error to 500 INTERNAL_ERROR.
C29_HandlerMapping ==
  uc.op = "handleError"
  => IF uc.err.Type = "DomainError"
     THEN /\ uc.resp.Error = uc.err.Code
          /\ uc.resp.Message = uc.err.Message
          /\ uc.resp.Status =
               (CASE uc.err.Code = "PRODUCT_NOT_FOUND" -> 404
                  [] uc.err.Code = "PRODUCT_ALREADY_EXISTS" -> 409
                  [] uc.err.Code \in {"INVALID_PRODUCT_NAME", "INVALID_SKU", "INVALID_PRICE",
                                      "INVALID_STOCK", "INVALID_CATEGORY",
                                      "INSUFFICIENT_STOCK"} -> 400
                  [] uc.err.Code \in {"PRODUCT_INACTIVE", "PRODUCT_DISCONTINUED",
                                      "PRODUCT_OUT_OF_STOCK", "PRODUCT_NOT_AVAILABLE"} -> 422
                  [] OTHER -> 400)
     ELSE /\ uc.resp.Status = 500
          /\ uc.resp.Error = "INTERNAL_ERROR"

\* A validation error of a use case became a 400.
C29_Witness ==
  /\ uc.op = "handleError"
  /\ uc.err = NewProductValidationError("price", "price cannot be negative")
  /\ uc.resp.Status = 400
  /\ uc.resp.Error = "VALIDATION_ERROR"

SameExcept(fields) ==
  \A k \in (DOMAIN product) \ (fields \cup {"UpdatedAt"}) : product[k] = last.before[k]

\* C30: Activate, Deactivate and Discontinue change nothing but the status and
\* updated-at; UpdateStock, ReduceStock and AddStock nothing but the stock and
\* updated-at; UpdatePrice nothing but the price and updated-at; so id, SKU and
\* created-at stay as NewProduct set them.
C30_OnlyOwnField ==
  /\ last.op \in {"Activate", "Deactivate", "Discontinue"} => SameExcept({"Status"})
  /\ last.op \in {"UpdateStock", "ReduceStock", "AddStock"} => SameExcept({"Stock"})
  /\ last.op = "UpdatePrice" => SameExcept({"Price"})
  /\ last.op \in EntityMutations
     => /\ product.ID = last.before.ID
        /\ product.SKU = last.before.SKU
        /\ product.CreatedAt = last.before.CreatedAt
        /\ DOMAIN product = DOMAIN last.before

\* A stocked product was discontinued at a later clock reading and kept its
\* stock.
C30_Witness ==
  /\ last.op = "Discontinue"
  /\ last.before.Status = ProductStatusActive
  /\ last.before.Stock > 0
  /\ product.Status = ProductStatusDiscontinued
  /\ product.Stock = last.before.Stock
  /\ product.UpdatedAt > product.CreatedAt

====
